---- MODULE Spec2Model ----
(***************************************************************************)
(* mongodantic: the lookup-key translation (models.py, helpers.py), the    *)
(* update routing (querybuilder.py, models.py), the retry / reconnect      *)
(* wrapper around every driver call (querybuilder.py, models.py), the      *)
(* boolean expressions over Query leaves (logical.py), the lookup          *)
(* pipeline of aggregate_lookup (aggregation.py, querybuilder.py), the     *)
(* bulk verbs (helpers.py, querybuilder.py), the raw passthrough, save and *)
(* find_and_replace, and the connection a reconnect renews (db.py).        *)
(*                                                                         *)
(* Python strings are sequences of one-character strings, so that split,   *)
(* endswith, replace, `in` and concatenation are computed as Python        *)
(* computes them.  Python dicts are insertion-ordered sequences of         *)
(* <<key, value>> pairs with distinct keys.                                *)
(***************************************************************************)
EXTENDS Integers, Sequences, FiniteSets, TLC

(***************************************************************************)
(* Bounds of the model.                                                    *)
(***************************************************************************)
MaxCalls == 2        \* logical operations issued in one behaviour

(***************************************************************************)
(* Program constants.                                                      *)
(***************************************************************************)
MaxAttempts == 5     \* `if counter >= 5` in __query

(***************************************************************************)
(* Strings.                                                                *)
(***************************************************************************)
US == <<"_", "_">>
\* the words of the lookup keys, the field names of the schema and the texts of repr
Str ==
    [set |-> <<"s", "e", "t">>,
     id |-> <<"_", "i", "d">>,
     name |-> <<"n", "a", "m", "e">>,
     position |-> <<"p", "o", "s", "i", "t", "i", "o", "n">>,
     config |-> <<"c", "o", "n", "f", "i", "g">>,
     foo |-> <<"f", "o", "o">>,
     url |-> <<"u", "r", "l">>,
     settings |-> <<"s", "e", "t", "t", "i", "n", "g", "s">>,
     replacement |-> <<"r", "e", "p", "l", "a", "c", "e", "m", "e", "n", "t">>,
     in |-> <<"i", "n">>,
     in_ |-> <<"i", "n", "_">>,
     nin |-> <<"n", "i", "n">>,
     ne |-> <<"n", "e">>,
     regex |-> <<"r", "e", "g", "e", "x">>,
     regex_ne |-> <<"r", "e", "g", "e", "x", "_", "n", "e">>,
     startswith |-> <<"s", "t", "a", "r", "t", "s", "w", "i", "t", "h">>,
     endswith |-> <<"e", "n", "d", "s", "w", "i", "t", "h">>,
     not_startswith |-> <<"n", "o", "t", "_", "s", "t", "a", "r", "t", "s", "w", "i", "t", "h">>,
     not_endswith |-> <<"n", "o", "t", "_", "e", "n", "d", "s", "w", "i", "t", "h">>,
     exists |-> <<"e", "x", "i", "s", "t", "s">>,
     type |-> <<"t", "y", "p", "e">>,
     gte |-> <<"g", "t", "e">>,
     lte |-> <<"l", "t", "e">>,
     gt |-> <<"g", "t">>,
     lt |-> <<"l", "t">>,
     inc |-> <<"i", "n", "c">>,
     range |-> <<"r", "a", "n", "g", "e">>,
     hex |-> [i \in 1..24 |-> "a"],
     True |-> <<"T", "r", "u", "e">>,
     False |-> <<"F", "a", "l", "s", "e">>]
\* the keys of the fragments
Op ==
    [in |-> <<"$", "i", "n">>,
     nin |-> <<"$", "n", "i", "n">>,
     ne |-> <<"$", "n", "e">>,
     regex |-> <<"$", "r", "e", "g", "e", "x">>,
     not |-> <<"n", "o", "t">>,
     exists |-> <<"$", "e", "x", "i", "s", "t", "s">>,
     type |-> <<"$", "t", "y", "p", "e">>,
     gte |-> <<"$", "g", "t", "e">>,
     lte |-> <<"$", "l", "t", "e">>,
     gt |-> <<"$", "g", "t">>,
     lt |-> <<"$", "l", "t">>,
     set |-> <<"$", "s", "e", "t">>]

\* s.startswith(p) at offset i (1-based)
MatchAt(s, p, i) ==
    /\ i >= 1
    /\ i + Len(p) - 1 <= Len(s)
    /\ SubSeq(s, i, i + Len(p) - 1) = p

\* s.endswith(p)
EndsWith(s, p) == MatchAt(s, p, Len(s) - Len(p) + 1)

\* p in s
Contains(s, p) == \E i \in 1..(Len(s) + 1) : MatchAt(s, p, i)

\* index of the leftmost occurrence of p in s (p is not empty)
FirstAt(s, p) == CHOOSE i \in 1..Len(s) : MatchAt(s, p, i) /\ \A j \in 1..(i - 1) : ~MatchAt(s, p, j)

\* s.split(sep)
RECURSIVE Split(_, _)
Split(s, sep) ==
    IF Contains(s, sep)
    THEN LET i == FirstAt(s, sep)
         IN <<SubSeq(s, 1, i - 1)>> \o Split(SubSeq(s, i + Len(sep), Len(s)), sep)
    ELSE <<s>>

\* s.replace(old, '')
RECURSIVE Remove(_, _)
Remove(s, old) ==
    IF Contains(s, old)
    THEN LET i == FirstAt(s, old)
         IN SubSeq(s, 1, i - 1) \o Remove(SubSeq(s, i + Len(old), Len(s)), old)
    ELSE s

\* '__'.join(tokens): the key a caller writes as field__token__token
RECURSIVE Join(_)
Join(tokens) ==
    IF Len(tokens) = 1 THEN tokens[1]
    ELSE tokens[1] \o US \o Join(Tail(tokens))

DigitChar == <<"0", "1", "2", "3", "4", "5", "6", "7", "8", "9">>
IsDigit(c) == \E i \in 1..10 : DigitChar[i] = c
DigitVal(c) == (CHOOSE i \in 1..10 : DigitChar[i] = c) - 1
HexChars == {DigitChar[i] : i \in 1..10} \cup {"a", "b", "c", "d", "e", "f"}

\* str(n) of a non-negative int
RECURSIVE Digits(_)
Digits(n) ==
    IF n < 10 THEN <<DigitChar[n + 1]>>
    ELSE Digits(n \div 10) \o <<DigitChar[(n % 10) + 1]>>

\* int(s) of a string of decimal digits
RECURSIVE ParseNat(_)
ParseNat(s) ==
    IF Len(s) = 0 THEN 0
    ELSE 10 * ParseNat(SubSeq(s, 1, Len(s) - 1)) + DigitVal(s[Len(s)])

IsNumeral(s) == Len(s) > 0 /\ \A i \in 1..Len(s) : IsDigit(s[i])

(***************************************************************************)
(* Python values.  One record shape for every kind:                        *)
(*   int  - n;  bool - n in {0, 1};  str - s;  oid - s (its hex form);     *)
(*   list - l (the items);  dict - l (the <<key, value>> pairs, in         *)
(*   insertion order);  tuple - l (the items);  none.                      *)
(***************************************************************************)
VInt(n) == [k |-> "int", n |-> n, s |-> <<>>, l |-> <<>>]
VBool(b) == [k |-> "bool", n |-> IF b THEN 1 ELSE 0, s |-> <<>>, l |-> <<>>]
VStr(s) == [k |-> "str", n |-> 0, s |-> s, l |-> <<>>]
VOid(hex) == [k |-> "oid", n |-> 0, s |-> hex, l |-> <<>>]
VList(items) == [k |-> "list", n |-> 0, s |-> <<>>, l |-> items]
VTuple(items) == [k |-> "tuple", n |-> 0, s |-> <<>>, l |-> items]
VDict(pairs) == [k |-> "dict", n |-> 0, s |-> <<>>, l |-> pairs]
NoneV == [k |-> "none", n |-> 0, s |-> <<>>, l |-> <<>>]
\* an opaque object (a ClientSession, a ReturnDocument member)
VObj(n) == [k |-> "object", n |-> n, s |-> <<>>, l |-> <<>>]

\* bool(v): the truth value of a Python value
Truthy(v) ==
    CASE v.k = "int" -> v.n # 0
      [] v.k = "bool" -> v.n = 1
      [] v.k = "str" -> Len(v.s) > 0
      [] v.k = "oid" -> TRUE
      [] v.k = "list" -> Len(v.l) > 0
      [] v.k = "tuple" -> Len(v.l) > 0
      [] v.k = "dict" -> Len(v.l) > 0
      [] v.k = "none" -> FALSE
      [] v.k = "object" -> TRUE
      [] v.k \in {"Query", "LogicalCombination"} -> TRUE

\* dict operations on the pair sequences
Keys(pairs) == {pairs[i][1] : i \in 1..Len(pairs)}
HasKey(pairs, key) == key \in Keys(pairs)
Get(pairs, key) == pairs[CHOOSE i \in 1..Len(pairs) : pairs[i][1] = key][2]
\* variant: a key already present keeps its value
Put_first(pairs, key, value) ==
    IF HasKey(pairs, key) THEN pairs ELSE Append(pairs, <<key, value>>)
\* d[key] = value
Put(pairs, key, value) ==
    IF HasKey(pairs, key)
    THEN [i \in 1..Len(pairs) |-> IF pairs[i][1] = key THEN <<key, value>> ELSE pairs[i]]
    ELSE Append(pairs, <<key, value>>)
\* variant: the keys already present keep their value
RECURSIVE Update_keep(_, _)
Update_keep(pairs, other) ==
    IF Len(other) = 0 THEN pairs
    ELSE Update_keep(IF HasKey(pairs, other[1][1]) THEN pairs
                     ELSE Append(pairs, other[1]), Tail(other))
\* d.update(other)
RECURSIVE Update(_, _)
Update(pairs, other) ==
    IF Len(other) = 0 THEN pairs
    ELSE Update(Put(pairs, other[1][1], other[1][2]), Tail(other))
RECURSIVE JoinWith(_, _)
JoinWith(parts, sep) ==
    IF Len(parts) = 0 THEN <<>>
    ELSE IF Len(parts) = 1 THEN parts[1]
    ELSE parts[1] \o sep \o JoinWith(Tail(parts), sep)

\* repr(v) and str(v); strings of the model hold no quote and no backslash
RECURSIVE Repr(_)
Repr(v) ==
    CASE v.k = "int" -> Digits(v.n)
      [] v.k = "bool" -> IF v.n = 1 THEN Str.True ELSE Str.False
      [] v.k = "str" -> <<"'">> \o v.s \o <<"'">>
      [] v.k = "oid" -> <<"O", "b", "j", "e", "c", "t", "I", "d", "(", "'">> \o v.s \o <<"'", ")">>
      [] v.k = "none" -> <<"N", "o", "n", "e">>
      [] v.k = "list" ->
            <<"[">> \o JoinWith([i \in 1..Len(v.l) |-> Repr(v.l[i])], <<",", " ">>) \o <<"]">>
      [] v.k = "tuple" ->
            <<"(">> \o JoinWith([i \in 1..Len(v.l) |-> Repr(v.l[i])], <<",", " ">>)
                  \o (IF Len(v.l) = 1 THEN <<",">> ELSE <<>>) \o <<")">>
      [] v.k = "dict" ->
            <<"{">> \o JoinWith([i \in 1..Len(v.l) |->
                          <<"'">> \o v.l[i][1] \o <<"'", ":", " ">> \o Repr(v.l[i][2])],
                      <<",", " ">>) \o <<"}">>
PyStr(v) ==
    CASE v.k = "str" -> v.s
      [] v.k = "oid" -> v.s
      [] OTHER -> Repr(v)

(***************************************************************************)
(* Results of a computation that may raise: err = "none" and the value,    *)
(* or the name of the exception, what it carries (info) and its text.      *)
(***************************************************************************)
Ok(v) == [err |-> "none", v |-> v, info |-> <<>>, msg |-> ""]
Raise(e) == [err |-> e, v |-> NoneV, info |-> <<>>, msg |-> ""]
RaiseWith(e, info) == [err |-> e, v |-> NoneV, info |-> info, msg |-> ""]
RaiseMsg(e, msg) == [err |-> e, v |-> NoneV, info |-> <<>>, msg |-> msg]
IsOk(r) == r.err = "none"

\* x = <expression> followed by statements that use x:
\* The({ <statements> : x \in {<expression>} }) evaluates the expression once
The(S) == CHOOSE x \in S : TRUE

(***************************************************************************)
(* The schema of the tests' Ticket model and the validators of the         *)
(* declared types (pydantic: str_validator, int_validator, dict_validator).*)
(***************************************************************************)
FieldNames == <<Str.name, Str.position, Str.config>>
Fields == {FieldNames[i] : i \in 1..Len(FieldNames)}
FieldType(f) ==
    CASE f = Str.name -> "str"
      [] f = Str.position -> "int"
      [] f = Str.config -> "dict"

\* dict(v) of a value that is not a dict
DictOf(v) ==
    IF v.k = "str" /\ Len(v.s) = 0 THEN Ok(VDict(<<>>))
    ELSE IF v.k \in {"list", "tuple"}
            /\ \A i \in 1..Len(v.l) : v.l[i].k = "str" /\ Len(v.l[i].s) = 2
    THEN LET RECURSIVE Build(_, _)
             Build(i, acc) ==
                 IF i > Len(v.l) THEN acc
                 ELSE Build(i + 1, Put(acc, <<v.l[i].s[1]>>, VStr(<<v.l[i].s[2]>>)))
         IN Ok(VDict(Build(1, <<>>)))
    ELSE Raise("DictError")

\* field.validate(value, ...): the value coerced to the declared type, or an error
FieldValidate(f, v) ==
    CASE FieldType(f) = "str" ->
            IF v.k = "str" THEN Ok(v)
            ELSE IF v.k \in {"int", "bool"} THEN Ok(VStr(Repr(v)))
            ELSE Raise("StrError")
      [] FieldType(f) = "int" ->
            IF v.k = "int" THEN Ok(v)
            ELSE IF v.k = "bool" THEN Ok(VInt(v.n))
            ELSE IF v.k = "str" /\ IsNumeral(v.s) THEN Ok(VInt(ParseNat(v.s)))
            ELSE Raise("IntegerError")
      [] FieldType(f) = "dict" ->
            IF v.k = "dict" THEN Ok(v) ELSE DictOf(v)

\* MongoModel.__validate_value
validate_value(field_name, value) ==
    LET r == FieldValidate(field_name, value)
    IN IF IsOk(r) THEN r ELSE RaiseWith("ValidationError", <<field_name>>)

\* bson.ObjectId(v)
IsHex(s) == Len(s) = Len(Str.hex) /\ \A i \in 1..Len(s) : s[i] \in HexChars
ObjectId(v) ==
    IF v.k = "oid" THEN Ok(v)
    ELSE IF v.k = "str" THEN (IF IsHex(v.s) THEN Ok(VOid(v.s)) ELSE Raise("InvalidId"))
    ELSE Raise("TypeError")

(***************************************************************************)
(* helpers.py: ExtraQueryMapper.  Every method returns the fragment that   *)
(* is merged into the mapping under the field.                             *)
(***************************************************************************)
One(key, value) == VDict(<< <<key, value>> >>)

in_(list_values) ==
    IF list_values.k # "list" THEN Raise("TypeError")
    ELSE Ok(One(Op.in, list_values))
regex(regex_value) == Ok(One(Op.regex, regex_value))
regex_ne(regex_value) == Ok(One(Op.not, One(Op.regex, regex_value)))
ne(value) == Ok(One(Op.ne, value))
startswith(value) == Ok(One(Op.regex, VStr(<<"^">> \o PyStr(value))))
endswith(value) == Ok(One(Op.regex, VStr(PyStr(value) \o <<"$">>)))
nin(list_values) ==
    IF list_values.k # "list" THEN Raise("TypeError")
    ELSE Ok(One(Op.nin, list_values))
exists(boolean_value) == Ok(One(Op.exists, boolean_value))
type(bson_type) == Ok(One(Op.type, bson_type))
gte(value) == Ok(One(Op.gte, value))
\* variant: lte written with the operator of lt
lte_lt(value) == Ok(One(Op.lt, value))
lte(value) == Ok(One(Op.lte, value))
gt(value) == Ok(One(Op.gt, value))
lt(value) == Ok(One(Op.lt, value))
range(range_values) ==
    IF range_values.k \notin {"str", "list", "tuple", "dict"}
    THEN Raise("TypeError")                                                      \* no len()
    ELSE IF range_values.k = "str" THEN
        IF Len(range_values.s) # 2 THEN Raise("ValueError")
        ELSE Ok(VDict(<< <<Op.gte, VStr(<<range_values.s[1]>>)>>,
                         <<Op.lte, VStr(<<range_values.s[2]>>)>> >>))
    ELSE IF Len(range_values.l) # 2 THEN Raise("ValueError")
    ELSE IF range_values.k = "dict" THEN Raise("KeyError")                       \* range_values[0]
    ELSE Ok(VDict(<< <<Op.gte, range_values.l[1]>>, <<Op.lte, range_values.l[2]>> >>))

\* getattr(self, extra_method)(values)
CallMethod(extra_method, values) ==
    CASE extra_method = Str.in_ -> in_(values)
      [] extra_method = Str.regex -> regex(values)
      [] extra_method = Str.regex_ne -> regex_ne(values)
      [] extra_method = Str.ne -> ne(values)
      [] extra_method = Str.startswith -> startswith(values)
      [] extra_method = Str.endswith -> endswith(values)
      [] extra_method = Str.nin -> nin(values)
      [] extra_method = Str.exists -> exists(values)
      [] extra_method = Str.type -> type(values)
      [] extra_method = Str.gte -> gte(values)
      [] extra_method = Str.lte -> lte(values)
      [] extra_method = Str.gt -> gt(values)
      [] extra_method = Str.lt -> lt(values)
      [] extra_method = Str.range -> range(values)
      [] OTHER -> Raise("AttributeError")

\* [ObjectId(v) for v in values] if isinstance(values, list) else ObjectId(values)
ObjectIds(values) ==
    IF values.k = "list"
    THEN IF \A i \in 1..Len(values.l) : IsOk(ObjectId(values.l[i]))
         THEN Ok(VList([i \in 1..Len(values.l) |-> ObjectId(values.l[i]).v]))
         ELSE ObjectId(values.l[CHOOSE i \in 1..Len(values.l) :
                           /\ ~IsOk(ObjectId(values.l[i]))
                           /\ \A j \in 1..(i - 1) : IsOk(ObjectId(values.l[j]))])
    ELSE ObjectId(values)

\* ExtraQueryMapper(field_name).extra_query(extra_methods, values)
extra_query(field_name, extra_methods, values0) ==
    LET RECURSIVE Loop(_, _, _)
        Loop(i, acc, values) ==
            IF i > Len(extra_methods) THEN Ok(One(field_name, VDict(acc)))
            ELSE IF extra_methods[i] # Str.in /\ extra_methods[i] = Str.inc
                 THEN Raise("NameError")      \* `return self.inc(value)`: value is not defined
            ELSE The({ IF ~IsOk(r) THEN r ELSE Loop(i + 1, Update(acc, r.v.l), values) :
                       r \in {CallMethod(IF extra_methods[i] = Str.in THEN Str.in_
                                         ELSE extra_methods[i], values)} })
    IN The({ IF ~IsOk(conv) THEN conv
             ELSE IF Len(extra_methods) > 0 THEN Loop(1, <<>>, conv.v)
             ELSE Ok(VDict(<<>>)) :
             conv \in {IF field_name = Str.id THEN ObjectIds(values0) ELSE Ok(values0)} })

(***************************************************************************)
(* models.py: MongoModel._validate_query_data.  query is the ordered       *)
(* mapping of lookup keys to values.                                       *)
(***************************************************************************)
\* variant: the test of the declared fields without the exception for '_id'
validate_query_data_noid(query) ==
    LET \* the value stored under the field
        Value(field, value, _dict) ==
            IF ~IsOk(_dict) THEN _dict
            ELSE IF Truthy(_dict.v) THEN Ok(Get(_dict.v.l, field))
            ELSE IF field = Str.id THEN ObjectId(value)
            ELSE validate_value(field, value)
        \* one pass of the loop, for the key field__extra_params
        Entry(parts, value) ==
            IF parts[1] \notin Fields
            THEN RaiseWith("NotDeclaredField", <<parts[1], FieldNames>>)
            ELSE Value(parts[1], value, extra_query(parts[1], Tail(parts), value))
        RECURSIVE Loop(_, _)
        Loop(i, data) ==
            IF i > Len(query) THEN Ok(VDict(data))
            ELSE The({ The({ IF ~IsOk(r) THEN r ELSE Loop(i + 1, Put(data, parts[1], r.v)) :
                             r \in {Entry(parts, query[i][2])} }) :
                       parts \in {Split(query[i][1], US)} })
    IN Loop(1, <<>>)

validate_query_data(query) ==
    LET \* the value stored under the field
        Value(field, value, _dict) ==
            IF ~IsOk(_dict) THEN _dict
            ELSE IF Truthy(_dict.v) THEN Ok(Get(_dict.v.l, field))
            ELSE IF field = Str.id THEN ObjectId(value)
            ELSE validate_value(field, value)
        \* one pass of the loop, for the key field__extra_params
        Entry(parts, value) ==
            IF parts[1] \notin Fields /\ parts[1] # Str.id
            THEN RaiseWith("NotDeclaredField", <<parts[1], FieldNames>>)
            ELSE Value(parts[1], value, extra_query(parts[1], Tail(parts), value))
        RECURSIVE Loop(_, _)
        Loop(i, data) ==
            IF i > Len(query) THEN Ok(VDict(data))
            ELSE The({ The({ IF ~IsOk(r) THEN r ELSE Loop(i + 1, Put(data, parts[1], r.v)) :
                             r \in {Entry(parts, query[i][2])} }) :
                       parts \in {Split(query[i][1], US)} })
    IN Loop(1, <<>>)

(***************************************************************************)
(* logical.py: Query and LogicalCombination, as the specification          *)
(* describes them (section 4.4).  A node is a value: a Query holds its     *)
(* keyword filter in l, a LogicalCombination its operation in s and its    *)
(* children in l.                                                          *)
(***************************************************************************)
d_or == <<"$", "o", "r">>
d_and == <<"$", "a", "n", "d">>
Query(query) == [k |-> "Query", n |-> 0, s |-> <<>>, l |-> query]

\* variant: the operands are kept as the two children, never flattened
LogicalCombination_nested(operation, children) ==
    [k |-> "LogicalCombination", n |-> 0, s |-> operation, l |-> children]
\* LogicalCombination(operation, children): the children of an operand that is
\* a combination of the same operation are taken in its place, and a child
\* equal to an earlier one is left out
LogicalCombination(operation, children) ==
    LET Same(a, b) == a.k = b.k /\ a = b
        RECURSIVE Flat(_)
        Flat(i) ==
            IF i > Len(children) THEN <<>>
            ELSE (IF children[i].k = "LogicalCombination" /\ children[i].s = operation
                  THEN children[i].l ELSE <<children[i]>>) \o Flat(i + 1)
        RECURSIVE Distinct(_, _)
        Distinct(nodes, acc) ==
            IF Len(nodes) = 0 THEN acc
            ELSE Distinct(Tail(nodes),
                          IF \E j \in 1..Len(acc) : Same(acc[j], nodes[1]) THEN acc
                          ELSE Append(acc, nodes[1]))
    IN [k |-> "LogicalCombination", n |-> 0, s |-> operation, l |-> Distinct(Flat(1), <<>>)]

\* left & right, left | right
combine(left, right, operation) == LogicalCombination(operation, <<left, right>>)

\* node.to_query(model): a Query through _validate_query_data, a combination
\* as {operation: [the compiled children]}
RECURSIVE to_query(_)
to_query(node) ==
    IF node.k = "Query" THEN validate_query_data(node.l)
    ELSE LET RECURSIVE Each(_, _)
             Each(i, acc) ==
                 IF i > Len(node.l) THEN Ok(One(node.s, VList(acc)))
                 ELSE The({ IF ~IsOk(r) THEN r ELSE Each(i + 1, Append(acc, r.v)) :
                            r \in {to_query(node.l[i])} })
         IN Each(1, <<>>)

(***************************************************************************)
(* models.py, query.py: _check_query_args.  The argument is a node or a    *)
(* raw mapping.                                                            *)
(***************************************************************************)
\* variant: without the isinstance test (a mapping has no to_query)
check_query_args_untested(logical) ==
    IF logical.k \in {"LogicalCombination", "Query"} THEN to_query(logical)
    ELSE Raise("AttributeError")
check_query_args(logical) ==
    IF logical.k \notin {"LogicalCombination", "Query"} THEN Raise("InvalidArgsParams")
    ELSE to_query(logical)

(***************************************************************************)
(* _ensure_update_data of the two verb layers.  The result is the pair     *)
(* (queries, set_values).                                                  *)
(***************************************************************************)
NoFieldsMsg == "not fields for updating!"

\* querybuilder.py: QueryBuilder._ensure_update_data
qb_ensure_update_data(fields) ==
    LET RECURSIVE Loop(_, _, _)
        Loop(i, queries, set_values) ==
            IF i > Len(fields) THEN Ok(VList(<<VDict(queries), VDict(set_values)>>))
            ELSE LET name == fields[i][1]
                     value == fields[i][2]
                 IN IF EndsWith(name, US \o Str.set)
                    THEN The({ IF ~IsOk(data) THEN data
                               ELSE Loop(i + 1, queries, Update(set_values, data.v.l)) :
                               data \in {validate_query_data(
                                             << <<Remove(name, US \o Str.set), value>> >>)} })
                    ELSE The({ IF ~IsOk(data) THEN data
                               ELSE Loop(i + 1, Update(queries, data.v.l), set_values) :
                               data \in {validate_query_data(<< <<name, value>> >>)} })
    IN IF ~\E i \in 1..Len(fields) : Contains(fields[i][1], US \o Str.set)
       THEN RaiseMsg("ValueError", NoFieldsMsg)
       ELSE Loop(1, <<>>, <<>>)

\* models.py: MongoModel._ensure_update_data
mm_ensure_update_data(fields) ==
    LET RECURSIVE Loop(_, _, _)
        Loop(i, queries, set_values) ==
            IF i > Len(fields) THEN Ok(VList(<<VDict(queries), VDict(set_values)>>))
            ELSE The({
                LET name == fields[i][1]
                    value == fields[i][2]
                IN IF Len(extra_fields) = 2
                   THEN IF extra_fields[2] = Str.set
                        THEN The({ IF ~IsOk(_dict) THEN _dict
                                   ELSE Loop(i + 1, queries, Update(set_values, _dict.v.l)) :
                                   _dict \in {validate_query_data(
                                                  << <<extra_fields[1], value>> >>)} })
                        ELSE Loop(i + 1, queries, set_values)
                   ELSE The({ IF ~IsOk(_dict) THEN _dict
                              ELSE Loop(i + 1, Update(queries, _dict.v.l), set_values) :
                              _dict \in {validate_query_data(<< <<name, value>> >>)} }) :
                extra_fields \in {Split(fields[i][1], US)} })
    IN IF ~\E i \in 1..Len(fields) : Contains(fields[i][1], US \o Str.set)
       THEN RaiseMsg("AttributeError", NoFieldsMsg)
       ELSE Loop(1, <<>>, <<>>)

ensure_update_data(layer, fields) ==
    IF layer = "QueryBuilder" THEN qb_ensure_update_data(fields)
    ELSE mm_ensure_update_data(fields)

(***************************************************************************)
(* The calls of the model.  A call names the layer whose verb is called    *)
(* (QueryBuilder of querybuilder.py, or the classmethods of MongoModel in  *)
(* models.py), the verb, the keyword filter in the order written, the      *)
(* boolean-expression argument and the session.                            *)
(***************************************************************************)
\* the values the calls pass: 'go', '42', {'url': 'go'}, a ClientSession, the
\* sort [('_id', 1)], ReturnDocument.AFTER, [1, 3], (1, 3), an ObjectId
V ==
    [go |-> VStr(<<"g", "o">>), n42 |-> VStr(<<"4", "2">>),
     doc |-> VDict(<< <<Str.url, VStr(<<"g", "o">>)>> >>), session |-> VObj(1),
     sort |-> VList(<< VList(<<VStr(Str.id), VInt(1)>>) >>), after |-> VBool(TRUE),
     list |-> VList(<<VInt(1), VInt(3)>>), tuple |-> VTuple(<<VInt(1), VInt(3)>>),
     oid |-> VOid(Str.hex)]

K(tokens) == Join(tokens)

\* the filters find_one is called with
FindQueries ==
    { <<>>,
      << <<Str.name, V.go>> >>,
      << <<K(<<Str.position, Str.gte>>), VInt(1)>> >>,
      << <<Str.position, V.n42>>, <<Str.name, VInt(7)>> >>,
      << <<K(<<Str.foo, Str.gte>>), VInt(1)>> >>,
      << <<Str.position, V.go>> >>,
      << <<K(<<Str.name, Str.in>>), V.go>> >> }

\* the keyword arguments the update verbs are called with
UpdateQueries ==
    { <<>>,
      << <<Str.name, V.go>> >>,
      << <<K(<<Str.position, Str.gte>>), VInt(1)>> >>,
      << <<K(<<Str.config, Str.settings>>), V.go>> >>,
      << <<Str.name, V.go>>, <<K(<<Str.config, Str.set>>), V.doc>> >>,
      << <<K(<<Str.name, Str.set>>), VInt(7)>>, <<Str.position, V.n42>> >>,
      << <<K(<<Str.position, Str.gte>>), VInt(1)>>, <<K(<<Str.name, Str.set>>), V.go>> >>,
      << <<K(<<Str.config, Str.exists>>), VBool(TRUE)>>, <<K(<<Str.position, Str.set>>), V.n42>> >>,
      << <<K(<<Str.name, Str.set>>), V.doc>> >> }

\* update_many runs the code of update_one (_update): fewer of them
UpdateManyQueries ==
    { << <<K(<<Str.config, Str.settings>>), V.go>> >>,
      << <<Str.name, V.go>>, <<K(<<Str.config, Str.set>>), V.doc>> >>,
      << <<K(<<Str.position, Str.gte>>), VInt(1)>>, <<K(<<Str.name, Str.set>>), V.go>> >> }

Queries == FindQueries \cup UpdateQueries

\* the calls that carry a session
SessionCalls ==
    { <<"find_one", << <<Str.name, V.go>> >> >>,
      <<"update_one", << <<Str.name, V.go>>, <<K(<<Str.config, Str.set>>), V.doc>> >> >> }

Layers == {"QueryBuilder", "MongoModel"}
Verbs == {"find_one", "update_one", "update_many", "find_one_and_update"}
UpdateVerbs == {"update_one", "update_many", "find_one_and_update"}
RawMapping == VDict(<< <<Str.name, V.go>> >>)
\* the boolean expressions find_one is called with: Query(name='go') and
\* Query(name='go') | Query(position='42')
Nodes ==
    { Query(<< <<Str.name, V.go>> >>),
      combine(Query(<< <<Str.name, V.go>> >>), Query(<< <<Str.position, V.n42>> >>), d_or) }

\* method and arg are the arguments of the verbs of ClientCalls
Calls ==
    { c \in [layer : Layers, verb : Verbs, query : Queries,
             logical_query : {NoneV, RawMapping} \cup Nodes, session : {NoneV, V.session},
             method : {""}, arg : {NoneV}] :
        /\ c.verb = "find_one" => c.query \in FindQueries
        /\ c.verb \in {"update_one", "find_one_and_update"} => c.query \in UpdateQueries
        /\ c.verb = "update_many" => c.query \in UpdateManyQueries
        /\ c.logical_query # NoneV => c.verb = "find_one" /\ c.query = <<>> /\ c.session = NoneV
        /\ c.session # NoneV => <<c.verb, c.query>> \in SessionCalls }

NoCall ==
    [layer |-> "", verb |-> "", query |-> <<>>, logical_query |-> NoneV, session |-> NoneV,
     method |-> "", arg |-> NoneV]

\* the calls of the other verbs: raw_query(method, query);
\* find_and_replace(arg, **query) with the replacement arg; save() of the
\* object with the fields query and the _id arg (None: not stored yet), a
\* verb of the model alone
ClientCalls ==
    LET doc == << <<Str.name, V.go>>, <<Str.position, VInt(7)>>, <<Str.config, V.doc>> >>
        call(layer, verb, query, session, method, arg) ==
            [layer |-> layer, verb |-> verb, query |-> query, logical_query |-> NoneV,
             session |-> session, method |-> method, arg |-> arg]
    IN { call(layer, "raw_query", << <<Str.name, V.go>> >>, NoneV, method, NoneV) :
                  layer \in Layers, method \in {"find_one", "insert_one"} }
       \cup { call(layer, "find_and_replace", query, NoneV, "", RawMapping) :
                  layer \in Layers,
                  query \in { << <<Str.name, V.go>> >>,
                              << <<Str.name, V.go>>, <<K(<<Str.position, Str.set>>), VInt(7)>> >> } }
       \cup { call("MongoModel", "save", doc, session, "", arg) :
                  session \in {NoneV, V.session}, arg \in {NoneV, VStr(Str.hex)} }

(***************************************************************************)
(* The verbs up to their call of __query: the arguments of that call, or   *)
(* the error raised before it.                                             *)
(***************************************************************************)
Frame(method_name, query_params, set_values, session, logical, kwargs) ==
    [method_name |-> method_name, query_params |-> query_params, set_values |-> set_values,
     session |-> session, logical |-> logical, kwargs |-> kwargs]
NoFrame == Frame("", NoneV, NoneV, NoneV, FALSE, <<>>)

\* find_one of both layers
find_one(c) ==
    IF c.layer = "QueryBuilder"
    THEN Ok(Frame("find_one",
                  IF Truthy(c.logical_query) THEN c.logical_query ELSE VDict(c.query),
                  NoneV, c.session, Truthy(c.logical_query), << <<"sort", V.sort>> >>))
    ELSE The({ IF ~IsOk(query) THEN query
               ELSE Ok(Frame("find_one", query.v, NoneV, c.session, Truthy(c.logical_query),
                             << <<"sort", V.sort>> >>)) :
               query \in {IF Truthy(c.logical_query) THEN check_query_args(c.logical_query)
                          ELSE Ok(VDict(c.query))} })

\* _update of both layers (update_one, update_many)
update(c) ==
    The({ IF ~IsOk(r) THEN r
          ELSE Ok(Frame(c.verb, r.v.l[1], One(Op.set, r.v.l[2]), c.session, FALSE,
                        << <<"upsert", VBool(FALSE)>> >>)) :
          r \in {ensure_update_data(c.layer, c.query)} })

\* QueryBuilder._find_with_replacement_or_with_update, MongoModel.find_one_and_update
find_one_and_update(c) ==
    The({ IF ~IsOk(r) THEN r
          ELSE Ok(Frame("find_one_and_update", r.v.l[1], One(Op.set, r.v.l[2]), c.session, FALSE,
                        << <<"return_document", V.after>>, <<"projection", NoneV>>,
                           <<"upsert", VBool(FALSE)>>,
                           <<"sort", IF c.layer = "QueryBuilder" THEN V.sort ELSE NoneV>> >>)) :
          r \in {ensure_update_data(c.layer, c.query)} })

\* find_and_replace: of the QueryBuilder through
\* _find_with_replacement_or_with_update, where replacement is one of the
\* keyword arguments handed to _ensure_update_data; of the model on its own
find_and_replace(c) ==
    IF c.layer = "QueryBuilder"
    THEN The({ IF ~IsOk(r) THEN r
               ELSE Ok(Frame("find_and_replace", r.v.l[1], One(Op.set, r.v.l[2]), c.session, FALSE,
                             << <<"return_document", V.after>>, <<"projection", NoneV>>,
                                <<"upsert", VBool(FALSE)>>, <<"sort", V.sort>>,
                                <<"replacement", c.arg>> >>)) :
               r \in {qb_ensure_update_data(<< <<Str.replacement, c.arg>> >> \o c.query)} })
    ELSE The({ IF ~IsOk(query) THEN query
               ELSE Ok(Frame("find_one_and_replace", query.v, c.arg, c.session, FALSE,
                             << <<"return_document", V.after>>, <<"projection", NoneV>>,
                                <<"upsert", VBool(FALSE)>>, <<"sort", NoneV>> >>)) :
               query \in {validate_query_data(c.query)} })

\* MongoModel.save: update_one(**data) of a stored object, insert_one(**data,
\* session=session) of a new one
save(c) ==
    IF c.arg.k # "none"
    THEN The({ IF ~IsOk(oid) THEN oid
               ELSE update([c EXCEPT !.verb = "update_one", !.session = NoneV,
                                     !.query = << <<Str.id, oid.v>> >> \o
                                         [i \in 1..Len(FieldNames) |->
                                             <<K(<<FieldNames[i], Str.set>>),
                                               Get(c.query, FieldNames[i])>>]]) :
               oid \in {ObjectId(c.arg)} })
    ELSE Ok(Frame("insert_one", VDict(c.query), NoneV, c.session, FALSE, <<>>))

Verb(c) ==
    CASE c.verb = "find_one" -> find_one(c)
      [] c.verb \in {"update_one", "update_many"} -> update(c)
      [] c.verb = "find_one_and_update" -> find_one_and_update(c)
      [] c.verb = "find_and_replace" -> find_and_replace(c)
      [] c.verb = "save" -> save(c)

\* raw_query: the argument of the driver call (a dict), validated for the
\* methods with insert, replace or update in their name
raw_query(c) ==
    IF c.method \in {"insert_one", "insert_many", "replace_one", "update_one", "update_many",
                     "find_one_and_replace", "find_one_and_update"}
    THEN validate_query_data(c.query)
    ELSE Ok(VDict(c.query))

(***************************************************************************)
(* State.                                                                  *)
(*   ops[p]  the logical operation of caller p: its position in __query    *)
(*           (pc), the arguments of the current __query frame, the retry   *)
(*           counter, the driver call about to be made (pending), the      *)
(*           error caught from the driver, and what the operation has done *)
(*           so far (attempts, transients, reconnects, validations, log).  *)
(*   client  the MongoClient held by the shared connection; a reconnect    *)
(*           stores a new one.                                             *)
(*   database  the client the connection's cached database was obtained    *)
(*           from (0: get_database has not been called yet).               *)
(*   calls   the number of operations issued.                              *)
(*   cq, cres, cfrag  a filter handed to _validate_query_data, its result, *)
(*           and the result of ExtraQueryMapper.extra_query on the first   *)
(*           key of the filter.                                            *)
(*   lexpr, lnode, lres  a boolean expression over Query leaves, the node  *)
(*           it evaluates to, and the result of compiling the node.        *)
(*   acall, alookup, ares  the arguments of an aggregate_lookup call, the  *)
(*           value of its lookup expression, and the pipeline handed to    *)
(*           the driver or the exception raised.                           *)
(*   bulk    a bulk verb: its call, the batches still to be written, the   *)
(*           driver calls made so far with their outcomes, the batches the *)
(*           collection has taken, and the value returned or the exception *)
(*           raised.                                                       *)
(***************************************************************************)
VARIABLES ops, client, database, calls, cq, cres, cfrag, lexpr, lnode, lres, acall, alookup,
          ares, bulk
vars == <<ops, client, database, calls, cq, cres, cfrag, lexpr, lnode, lres, acall, alookup,
          ares, bulk>>
lvars == <<lexpr, lnode, lres>>
avars == <<acall, alookup, ares>>
cvars == <<cq, cres, cfrag, lvars, avars, bulk>>
wvars == <<ops, client, database, calls>>

Procs == {1, 2}
Callers == {1}       \* the callers of the sequential specification

TransientKinds ==
    {"NetworkTimeout", "AutoReconnect", "ConnectionFailure", "WriteConcernError",
     "ServerSelectionTimeoutError"}
OtherKinds == {"OperationFailure"}
DriverTexts == {"e1", "e2"}

NoError == [kind |-> "none", text |-> ""]
NoPending == [method_name |-> "", args |-> <<>>, kwargs |-> <<>>]
\* how an operation ended: the value came back, or an exception raised while
\* the documents were built (src = "build"), by the driver call (src =
\* "driver") or by the except clause of __query (src = "wrapper")
NoOutcome == [kind |-> "none", text |-> "", info |-> <<>>, src |-> ""]
Returned == [kind |-> "returned", text |-> "", info |-> <<>>, src |-> "driver"]

IdleOp ==
    [pc |-> "idle", call |-> NoCall, frame |-> NoFrame, counter |-> 0,
     pending |-> NoPending, err |-> NoError, attempts |-> 0, transients |-> 0,
     reconnects |-> 0, validations |-> 0, log |-> <<>>, via |-> <<>>, outcome |-> NoOutcome]

\* the exception leaves the operation
Raised(o, r) ==
    [o EXCEPT !.pc = "done",
              !.outcome = [kind |-> r.err, text |-> r.msg, info |-> r.info, src |-> "build"]]

\* variant: the except clause catches every exception
IsTransient_any(kind) == TRUE

\* the except clause of __query
IsTransient(kind) == kind \in TransientKinds

\* the validation __query runs on its query_params before the driver call
Validated(layer, frame) ==
    IF layer = "QueryBuilder"
    THEN (IF frame.logical THEN check_query_args(frame.query_params)
          ELSE IF frame.query_params.k = "dict" THEN validate_query_data(frame.query_params.l)
          ELSE Ok(frame.query_params))
    ELSE (IF frame.query_params.k = "dict" /\ ~frame.logical
          THEN validate_query_data(frame.query_params.l)
          ELSE Ok(frame.query_params))

Validates(layer, frame) ==
    IF layer = "QueryBuilder" THEN frame.logical \/ frame.query_params.k = "dict"
    ELSE frame.query_params.k = "dict" /\ ~frame.logical

\* _DBConnection.get_database: the database is obtained from the client once
\* and kept (the collection of the model is kept in the same way)
get_database == IF database # 0 THEN database ELSE client

\* variant: the counter of the attempts is kept with the connection, one for
\* all operations
Enter_shared(o, frame, counter) ==
    The({
        LET o1 == [o EXCEPT !.frame = frame, !.counter = client,
                            !.validations = @ + (IF Validates(o.call.layer, frame) THEN 1 ELSE 0)]
            kwargs == IF Truthy(frame.session) THEN Put(frame.kwargs, "session", frame.session)
                      ELSE frame.kwargs
            query == IF Truthy(frame.set_values) THEN <<r.v, frame.set_values>> ELSE <<r.v>>
        IN IF ~IsOk(r) THEN Raised(o1, r)
           ELSE [o1 EXCEPT !.pc = "dispatch",
                           !.via = Append(@, get_database = client),
                           !.frame.kwargs = kwargs,
                           !.pending = [method_name |-> frame.method_name, args |-> query,
                                        kwargs |-> kwargs]] :
        r \in {Validated(o.call.layer, frame)} })

\* __query from its entry to the driver call: validate, pick the method,
\* add the session to kwargs, build the positional arguments
Enter(o, frame, counter) ==
    The({
        LET o1 == [o EXCEPT !.frame = frame, !.counter = counter,
                            !.validations = @ + (IF Validates(o.call.layer, frame) THEN 1 ELSE 0)]
            kwargs == IF Truthy(frame.session) THEN Put(frame.kwargs, "session", frame.session)
                      ELSE frame.kwargs
            query == IF Truthy(frame.set_values) THEN <<r.v, frame.set_values>> ELSE <<r.v>>
        IN IF ~IsOk(r) THEN Raised(o1, r)
           ELSE [o1 EXCEPT !.pc = "dispatch",
                           !.via = Append(@, get_database = client),
                           !.frame.kwargs = kwargs,
                           !.pending = [method_name |-> frame.method_name, args |-> query,
                                        kwargs |-> kwargs]] :
        r \in {Validated(o.call.layer, frame)} })

Pending == Raise("pending")
NoExpr == [shape |-> 0, leaves |-> <<>>]
NoAggregate ==
    [shape |-> 0, lookups |-> <<>>, query |-> <<>>, logical_query |-> NoneV,
     project |-> NoneV, limit_rows |-> NoneV]

\* no bulk verb has been called
NoBulk ==
    [call |-> [layer |-> "", verb |-> "", n |-> 0, given |-> FALSE, batch_size |-> NoneV,
               fields |-> FALSE],
     queue |-> <<>>, issued |-> <<>>, written |-> <<>>, inserted |-> 0, res |-> Pending]

Init ==
    /\ ops = [p \in Procs |-> IdleOp]
    /\ client = 1
    /\ database = 0
    /\ calls = 0
    /\ cq = <<>>
    /\ cres = Pending
    /\ cfrag = Pending
    /\ lexpr = NoExpr
    /\ lnode = NoneV
    /\ lres = Pending
    /\ acall = NoAggregate
    /\ alookup = Pending
    /\ ares = Pending
    /\ bulk = NoBulk

\* a caller calls a verb: the verb runs up to the first driver call
Call(p, c) ==
    /\ ops[p].pc \in {"idle", "done"}
    /\ calls < MaxCalls
    /\ calls' = calls + 1
    /\ ops' = [ops EXCEPT ![p] =
                  The({ IF ~IsOk(v) THEN Raised([IdleOp EXCEPT !.call = c], v)
                        ELSE Enter([IdleOp EXCEPT !.call = c], v.v, 1) :
                        v \in {Verb(c)} })]
    /\ database' = IF ops'[p].pc = "dispatch" THEN get_database ELSE database
    /\ UNCHANGED <<client, cvars>>

\* raw_query(method_name, raw_query, session): the driver call is made by the
\* verb itself, outside __query
RawCall(p, c) ==
    /\ ops[p].pc \in {"idle", "done"}
    /\ calls < MaxCalls
    /\ calls' = calls + 1
    /\ ops' = [ops EXCEPT ![p] =
                  The({ IF ~IsOk(r) THEN Raised([IdleOp EXCEPT !.call = c], r)
                        ELSE [IdleOp EXCEPT !.call = c, !.pc = "raw",
                                            !.via = <<get_database = client>>,
                                            !.pending = [method_name |-> c.method, args |-> <<r.v>>,
                                                         kwargs |-> << <<"session", c.session>> >>]] :
                        r \in {raw_query(c)} })]
    /\ database' = IF ops'[p].pc = "raw" THEN get_database ELSE database
    /\ UNCHANGED <<client, cvars>>

\* method(*query, **kwargs) returns
DispatchOk(p) ==
    /\ ops[p].pc \in {"dispatch", "raw"}
    /\ ops' = [ops EXCEPT ![p] = [@ EXCEPT !.pc = "done", !.attempts = @ + 1,
                                           !.log = Append(@, ops[p].pending),
                                           !.outcome = Returned]]
    /\ UNCHANGED <<client, database, calls, cvars>>

\* method(*query, **kwargs) raises
DispatchRaises(p, kind, text) ==
    /\ ops[p].pc \in {"dispatch", "raw"}
    /\ LET o == [ops[p] EXCEPT !.attempts = @ + 1, !.log = Append(@, ops[p].pending),
                               !.err = [kind |-> kind, text |-> text]]
       IN ops' = [ops EXCEPT ![p] =
                     IF ops[p].pc = "dispatch" /\ IsTransient(kind)
                     THEN [o EXCEPT !.pc = "caught", !.transients = @ + 1]
                     ELSE [o EXCEPT !.pc = "done",
                                    !.outcome = [kind |-> kind, text |-> text, info |-> <<>>,
                                                 src |-> "driver"]]]
    /\ UNCHANGED <<client, database, calls, cvars>>

\* variant: the ceiling is tested before the reconnect
Reconnect_late(p) ==
    /\ ops[p].pc = "caught"
    /\ client' = IF ops[p].counter >= MaxAttempts THEN client ELSE client + 1
    /\ ops' = [ops EXCEPT ![p] = [@ EXCEPT !.pc = "reconnected",
                                           !.reconnects = IF ops[p].counter >= MaxAttempts
                                                          THEN @ ELSE @ + 1]]
    /\ UNCHANGED <<database, calls, cvars>>

\* self._mongo_model._reconnect(): the connection gets a new client
Reconnect(p) ==
    /\ ops[p].pc = "caught"
    /\ client' = client + 1
    /\ ops' = [ops EXCEPT ![p] = [@ EXCEPT !.pc = "reconnected", !.reconnects = @ + 1]]
    /\ UNCHANGED <<database, calls, cvars>>

\* variant: the recursive call passes the validated query_params
RetryFrame_validated(o) == [o.frame EXCEPT !.query_params = o.pending.args[1]]

\* variant: the recursive call drops **kwargs
RetryFrame_nokwargs(o) == [o.frame EXCEPT !.kwargs = <<>>]

\* the arguments of the recursive call of __query: query_params is
\* inner_query_params, the value __query received, not the validated one
RetryFrame(o) == o.frame

\* the rest of the except clause: give up at the ceiling, or call __query
\* again with the original query_params; session=session next to a kwargs
\* that holds 'session' is a duplicate keyword argument
Retry(p, dup) ==
    /\ ops[p].pc = "reconnected"
    /\ LET o == ops[p]
       IN ops' = [ops EXCEPT ![p] =
                     IF o.counter >= MaxAttempts
                     THEN [o EXCEPT !.pc = "done",
                                    !.outcome = [kind |-> "MongoConnectionError",
                                                 text |-> o.err.text, info |-> <<>>,
                                                 src |-> "wrapper"]]
                     ELSE IF HasKey(o.frame.kwargs, "session")
                     THEN [o EXCEPT !.pc = "done",
                                    !.outcome = [kind |-> dup, text |-> "session", info |-> <<>>,
                                                 src |-> "wrapper"]]
                     ELSE Enter([o EXCEPT !.err = NoError], RetryFrame(o), o.counter + 1)]
    /\ database' = IF ops'[p].pc = "dispatch" THEN get_database ELSE database
    /\ UNCHANGED <<client, calls, cvars>>

\* what the interpreter raises for the duplicate keyword inside an except clause
DuplicateKeyword == {"TypeError", "KeyError"}

Next ==
    \E p \in Callers :
        \/ \E c \in Calls \cup ClientCalls : c.verb # "raw_query" /\ Call(p, c)
        \/ \E c \in ClientCalls : c.verb = "raw_query" /\ RawCall(p, c)
        \/ DispatchOk(p)
        \/ \E kind \in TransientKinds \cup OtherKinds, text \in DriverTexts :
              DispatchRaises(p, kind, text)
        \/ Reconnect(p)
        \/ \E dup \in DuplicateKeyword : Retry(p, dup)

Spec == Init /\ [][Next]_vars

\* two callers at once: find_one(name='go') of the QueryBuilder, with and
\* without a session, and raw_query('find_one', ...); one transient and one
\* other error of the driver
NextConcurrent ==
    \E p \in Procs :
        \/ \E c \in Calls :
              /\ c.layer = "QueryBuilder" /\ c.verb = "find_one" /\ c.logical_query = NoneV
              /\ c.query = << <<Str.name, V.go>> >>
              /\ Call(p, c)
        \/ \E c \in ClientCalls :
              /\ c.layer = "QueryBuilder" /\ c.verb = "raw_query" /\ c.method = "find_one"
              /\ RawCall(p, c)
        \/ DispatchOk(p)
        \/ \E kind \in {"AutoReconnect", "OperationFailure"} : DispatchRaises(p, kind, "e1")
        \/ Reconnect(p)
        \/ \E dup \in DuplicateKeyword : Retry(p, dup)

SpecConcurrent == Init /\ [][NextConcurrent]_vars

(***************************************************************************)
(* The translation as a function: a filter of one or two keys is drawn,    *)
(* then compiled.                                                          *)
(***************************************************************************)

CompileFields == {Str.name, Str.position, Str.config, Str.foo, Str.id}
CompileTokens ==
    {<<>>, <<Str.in>>, <<Str.nin>>, <<Str.ne>>, <<Str.regex>>, <<Str.regex_ne>>, <<Str.startswith>>,
     <<Str.endswith>>, <<Str.exists>>, <<Str.type>>, <<Str.gte>>, <<Str.lte>>, <<Str.gt>>, <<Str.lt>>,
     <<Str.range>>, <<Str.inc>>, <<Str.set>>, <<Str.url>>, <<Str.gte, Str.lte>>, <<Str.startswith, Str.endswith>>,
     <<Str.not_startswith>>, <<Str.not_endswith>>, <<Str.endswith, Str.startswith>>, <<Str.range, Str.gte>>,
     <<Str.lt, Str.startswith, Str.endswith>>, <<Str.url, Str.startswith>>}
CompileValues ==
    {V.go, V.n42, VInt(7), VBool(TRUE), V.list, VList(<<V.go, V.n42>>), VList(<<VInt(1)>>),
     V.tuple, V.doc, V.oid}
CompileKeys == {K(<<f>> \o t) : f \in CompileFields, t \in CompileTokens}
OtherEntries ==
    { <<Str.name, V.go>>, <<Str.position, V.go>>, <<K(<<Str.name, Str.in>>), V.go>>,
      <<K(<<Str.foo, Str.gte>>), VInt(1)>>, <<<<"b", "a", "r">>, VInt(1)>>, <<Str.id, V.oid>>,
      <<K(<<Str.position, Str.lte>>), VInt(7)>> }
CompileInputs ==
    LET Entries == CompileKeys \X CompileValues
        Two == {t \in Entries \X OtherEntries : t[1][1] # t[2][1]}
    IN {<<e>> : e \in Entries}
       \cup {<<t[1], t[2]>> : t \in Two}
       \cup {<<t[2], t[1]>> : t \in Two}

InitCompile ==
    /\ ops = [p \in Procs |-> IdleOp]
    /\ client = 1
    /\ database = 0
    /\ calls = 0
    /\ cq \in CompileInputs
    /\ cres = Pending
    /\ cfrag = Pending
    /\ lexpr = NoExpr
    /\ lnode = NoneV
    /\ lres = Pending
    /\ acall = NoAggregate
    /\ alookup = Pending
    /\ ares = Pending
    /\ bulk = NoBulk

\* cls._validate_query_data(query), and
\* ExtraQueryMapper(field).extra_query(extra_params, value) of the first key
Compile ==
    /\ cres = Pending
    /\ cres' = validate_query_data(cq)
    /\ cfrag' = LET parts == Split(cq[1][1], US)
                IN extra_query(parts[1], Tail(parts), cq[1][2])
    /\ UNCHANGED <<cq, wvars, lvars, avars, bulk>>

NextCompile == Compile

SpecCompile == InitCompile /\ [][NextCompile]_vars

(***************************************************************************)
(* The retry / reconnect wrapper.                                          *)
(***************************************************************************)

\* C1: an operation whose every dispatch attempt raised a transient error
\* makes exactly 5 attempts and then ends with MongoConnectionError carrying
\* the text of the last driver error; no operation makes a 6th attempt.
C1_ExhaustedAfterFiveAttempts ==
    \A p \in Procs :
        LET o == ops[p]
        IN /\ o.attempts <= MaxAttempts
           /\ (o.pc = "done" /\ o.attempts >= 1 /\ o.transients = o.attempts)
                 => /\ o.attempts = MaxAttempts
                    /\ o.outcome.kind = "MongoConnectionError"
                    /\ o.outcome.text = o.err.text

\* C2: an operation ends only by the value of its first successful attempt
\* (after k transient failures and k + 1 attempts, k <= 4, nothing raised), by
\* a non-transient driver error, or after 5 transient failures: fewer than 5
\* transient failures never end it.
C2_ReturnsFirstSuccess ==
    \A p \in Procs :
        LET o == ops[p]
        IN (o.pc = "done" /\ o.attempts >= 1)
              => \/ /\ o.outcome = Returned
                    /\ o.attempts = o.transients + 1
                    /\ o.transients <= MaxAttempts - 1
                 \/ o.outcome.src = "driver" /\ o.outcome.kind \in OtherKinds
                 \/ o.transients = MaxAttempts

\* C3: a driver exception that is not of a transient kind ends the operation
\* at once with that very exception: the attempt that raised it is the last
\* one and no reconnect follows it, whichever attempt it was.
C3_NonTransientPropagates ==
    \A p \in Procs :
        LET o == ops[p]
        IN (o.err.kind # "none" /\ o.err.kind \notin TransientKinds)
              => /\ o.pc = "done"
                 /\ o.outcome.kind = o.err.kind
                 /\ o.outcome.text = o.err.text
                 /\ o.outcome.src = "driver"
                 /\ o.attempts = o.transients + 1
                 /\ o.reconnects = o.transients

C3_Witness ==
    \E p \in Procs :
        /\ ops[p].pc = "done"
        /\ ops[p].err.kind \in OtherKinds
        /\ ops[p].attempts >= 2

\* C4: every transient failure of an operation is followed by exactly one
\* reconnect, made before the next driver call; an operation without a
\* transient failure makes no reconnect.
C4_OneReconnectPerTransient ==
    \A p \in Procs :
        LET o == ops[p]
        IN /\ o.pc = "caught" => o.reconnects + 1 = o.transients
           /\ o.pc # "caught" => o.reconnects = o.transients
           /\ o.pc = "dispatch" => o.reconnects = o.attempts

C4_Witness ==
    \E p \in Procs :
        /\ ops[p].pc = "done"
        /\ ops[p].transients = MaxAttempts
        /\ ops[p].reconnects = MaxAttempts

C6_BuildErrorsBeforeDispatch ==
    \A p \in Procs :
        LET o == ops[p]
        IN o.outcome.src = "build"
              => /\ o.pc = "done"
                 /\ o.attempts = 0
                 /\ o.reconnects = 0
                 /\ o.log = <<>>

C6_Witness ==
    \E p \in Procs :
        /\ ops[p].outcome.src = "build"
        /\ ops[p].outcome.kind \in {"NotDeclaredField", "ValidationError", "TypeError",
                                    "InvalidArgsParams"}

(***************************************************************************)
(* The translation of lookup keys.                                         *)
(***************************************************************************)

\* C7 as claimed: a filter with a key whose field part is neither declared
\* nor _id fails with NotDeclaredField carrying that field and the declared
\* field names, whatever the other keys; a filter whose keys all have a
\* declared field part or _id never fails with NotDeclaredField.
C7_NotDeclaredWhateverOtherKeys ==
    cres # Pending =>
        /\ \A i \in 1..Len(cq) :
              LET field == Split(cq[i][1], US)[1]
              IN (field \notin Fields /\ field # Str.id)
                    => cres = RaiseWith("NotDeclaredField", <<field, FieldNames>>)
        /\ (\A i \in 1..Len(cq) : Split(cq[i][1], US)[1] \in Fields \cup {Str.id})
              => cres.err # "NotDeclaredField"

\* C7 (amended): a filter with a key whose field part is neither declared nor
\* _id never compiles; it fails with NotDeclaredField carrying that field and
\* the declared field names when every key written before it compiles without
\* error, whatever the tokens of the key; otherwise with the error of the
\* first key that fails.  A filter whose keys all have a declared field part
\* or _id never fails with NotDeclaredField.
C7_NotDeclaredField ==
    cres # Pending =>
        /\ \A i \in 1..Len(cq) :
              LET field == Split(cq[i][1], US)[1]
              IN (field \notin Fields /\ field # Str.id)
                    => /\ ~IsOk(cres)
                       /\ (\A j \in 1..(i - 1) : IsOk(validate_query_data(<<cq[j]>>)))
                             => cres = RaiseWith("NotDeclaredField", <<field, FieldNames>>)
                       /\ (i > 1 /\ ~IsOk(validate_query_data(<<cq[1]>>)))
                             => cres = validate_query_data(<<cq[1]>>)
        /\ (\A i \in 1..Len(cq) : Split(cq[i][1], US)[1] \in Fields \cup {Str.id})
              => cres.err # "NotDeclaredField"

C7_Witness ==
    /\ Len(cq) = 2
    /\ cq[1] = <<Str.id, V.oid>>
    /\ Split(cq[2][1], US) = <<Str.foo, Str.startswith, Str.endswith>>
    /\ cres = RaiseWith("NotDeclaredField", <<Str.foo, FieldNames>>)

(***************************************************************************)
(* The update verbs.                                                       *)
(***************************************************************************)

\* C8: an update verb called with keys none of which ends with the set
\* modifier fails with the "no fields to update" error and dispatches no
\* driver call.
C8_NoSetKeyRaisesNoFieldsToUpdate ==
    \A p \in Procs :
        LET o == ops[p]
            IsSetKey(key) == LET parts == Split(key, US) IN parts[Len(parts)] = Str.set
        IN (/\ o.call.verb \in UpdateVerbs
            /\ Len(o.call.query) > 0
            /\ \A i \in 1..Len(o.call.query) : ~IsSetKey(o.call.query[i][1]))
              => /\ o.pc = "done"
                 /\ o.outcome.src = "build"
                 /\ o.outcome.kind \in {"ValueError", "AttributeError"}
                 /\ o.outcome.text = NoFieldsMsg
                 /\ o.attempts = 0
                 /\ o.log = <<>>

\* C9: in an update call with a set key that reaches the driver, every key ending with the
\* set modifier has its field in the $set payload, and every other key has
\* its field in the match filter and adds nothing to the payload: no key is
\* dropped.
C9_EveryKeyRouted ==
    \A p \in Procs :
        LET o == ops[p]
            query == o.call.query
            IsSetKey(key) == LET parts == Split(key, US) IN parts[Len(parts)] = Str.set
            SetFields == {Split(query[i][1], US)[1] : i \in {j \in 1..Len(query) : IsSetKey(query[j][1])}}
        IN (o.call.verb \in UpdateVerbs /\ SetFields # {} /\ o.pending # NoPending)
              => LET filter == o.pending.args[1].l
                     payload == Get(o.pending.args[2].l, Op.set).l
                 IN /\ Keys(payload) = SetFields
                    /\ \A i \in 1..Len(query) :
                          LET field == Split(query[i][1], US)[1]
                          IN ~IsSetKey(query[i][1]) => HasKey(filter, field)

(***************************************************************************)
(* Boolean expressions: an expression over Query leaves is drawn, then     *)
(* evaluated to a node, then compiled.                                     *)
(***************************************************************************)
Leaves ==
    { Query(<< <<Str.name, VInt(123)>> >>), Query(<< <<K(<<Str.name, Str.ne>>), VInt(124)>> >>),
      Query(<< <<Str.position, VInt(1)>> >>), Query(<< <<Str.position, VInt(2)>> >>),
      Query(<< <<Str.foo, VInt(1)>> >>) }
Shapes == 1..11
LogicalInputs == [shape : Shapes, leaves : Leaves \X Leaves \X Leaves \X Leaves]

\* the expressions, as Python groups them (& binds tighter than |)
Eval(e) ==
    LET A == e.leaves[1]
        B == e.leaves[2]
        C == e.leaves[3]
        D == e.leaves[4]
        Or(x, y) == combine(x, y, d_or)
        And(x, y) == combine(x, y, d_and)
    IN CASE e.shape = 1 -> Or(Or(A, And(B, C)), D)      \* A | B & C | D
         [] e.shape = 2 -> Or(Or(A, B), C)              \* (A | B) | C
         [] e.shape = 3 -> Or(A, Or(B, C))              \* A | (B | C)
         [] e.shape = 4 -> And(And(A, B), C)            \* (A & B) & C
         [] e.shape = 5 -> And(A, And(B, C))            \* A & (B & C)
         [] e.shape = 6 -> And(Or(A, B), C)             \* (A | B) & C
         [] e.shape = 7 -> Or(A, And(B, C))             \* A | B & C
         [] e.shape = 8 -> Or(A, B)                     \* A | B
         [] e.shape = 9 -> And(A, B)                    \* A & B
         [] e.shape = 10 -> Or(Or(A, B), Or(C, D))      \* (A | B) | (C | D)
         [] e.shape = 11 -> A                           \* A

InitLogical ==
    /\ ops = [p \in Procs |-> IdleOp]
    /\ client = 1
    /\ database = 0
    /\ calls = 0
    /\ cq = <<>>
    /\ cres = Pending
    /\ cfrag = Pending
    /\ lexpr \in LogicalInputs
    /\ lnode = NoneV
    /\ lres = Pending
    /\ acall = NoAggregate
    /\ alookup = Pending
    /\ ares = Pending
    /\ bulk = NoBulk

\* the expression is evaluated: __or__ and __and__ build the node
Compose ==
    /\ lnode = NoneV
    /\ lnode' = Eval(lexpr)
    /\ UNCHANGED <<lexpr, lres, cq, cres, cfrag, wvars, avars, bulk>>

\* cls._check_query_args(node)
CompileNode ==
    /\ lnode # NoneV
    /\ lres = Pending
    /\ lres' = check_query_args(lnode)
    /\ UNCHANGED <<lexpr, lnode, cq, cres, cfrag, wvars, avars, bulk>>

NextLogical == Compose \/ CompileNode

SpecLogical == InitLogical /\ [][NextLogical]_vars

(***************************************************************************)
(* aggregation.py: Lookup and LookupCombination.  A Lookup is a record of  *)
(* its attributes, a model class a record of its collection name and its   *)
(* field names.                                                            *)
(***************************************************************************)
\* Lookup.__init__
Lookup(from_collection, local_field, foreign_field, as_, with_unwind) ==
    [k |-> "Lookup", from_collection |-> from_collection, local_field |-> local_field,
     foreign_field |-> foreign_field,
     as_ |-> IF Len(as_) > 0 THEN as_ ELSE from_collection.collection_name,
     with_unwind |-> with_unwind, preserve_null_and_empty_arrays |-> FALSE]

\* LookupCombination.__init__
LookupCombination(lookup) ==
    LET RECURSIVE Loop(_, _)
        Loop(i, children) ==
            IF i > Len(lookup) THEN children
            ELSE IF \E j \in 1..Len(children) :
                       children[j].k = lookup[i].k /\ children[j] = lookup[i]
                 THEN Loop(i + 1, children)
            ELSE IF lookup[i].k = "LookupCombination"
                 THEN Loop(i + 1, children \o lookup[i].children)
            ELSE Loop(i + 1, Append(children, lookup[i]))
    IN [k |-> "LookupCombination", children |-> Loop(1, <<>>)]

\* self & other: Lookup.__and__ is Lookup._combine; LookupCombination has no
\* __and__ and Lookup no __rand__
lookup_and(self, other) ==
    IF self.k = "Lookup" THEN Ok(LookupCombination(<<self, other>>))
    ELSE Raise("TypeError")

\* variant: only the fields of the main model are looked at
validate_local_field_main(self, main_model) ==
    IF self.local_field \notin main_model.fields /\ self.local_field # Str.id
    THEN Raise("AttributeError")
    ELSE Ok(VStr(self.local_field))
\* Lookup._validate_local_field
validate_local_field(self, main_model) ==
    IF /\ self.local_field \notin (self.from_collection.fields \cup main_model.fields)
       /\ self.local_field # Str.id
    THEN Raise("AttributeError")
    ELSE Ok(VStr(self.local_field))

\* variant: the $unwind stage whatever with_unwind
lookup_to_query_unwound(self, main_model) ==
    The({ IF ~IsOk(localField) THEN localField
          ELSE Ok(<< One("$lookup", VDict(<< <<"localField", localField.v>>,
                                             <<"as", VStr(self.as_)>> >>)),
                     One("$unwind", VDict(<< <<"path", VStr(<<"$">> \o self.as_)>> >>)) >>) :
          localField \in {validate_local_field(self, main_model)} })
\* Lookup.to_query: the stages of one lookup
lookup_to_query(self, main_model) ==
    The({ IF ~IsOk(localField) THEN localField
          ELSE Ok(<< One("$lookup",
                         VDict(<< <<"localField", localField.v>>,
                                  <<"from", VStr(self.from_collection.collection_name)>>,
                                  <<"foreignField", VStr(self.foreign_field)>>,
                                  <<"as", VStr(self.as_)>> >>)) >>
                  \o (IF self.with_unwind
                      THEN << One("$unwind",
                                  VDict(<< <<"path", VStr(<<"$">> \o self.as_)>>,
                                           <<"preserveNullAndEmptyArrays",
                                             VBool(self.preserve_null_and_empty_arrays)>> >>)) >>
                      ELSE <<>>)) :
          localField \in {validate_local_field(self, main_model)} })

\* helpers.generate_lookup_project_params, as the specification describes it:
\* every field of the main model and the alias of every referenced collection
generate_lookup_project_params(main_model, aliases) ==
    LET RECURSIVE Each(_, _)
        Each(names, acc) ==
            IF Len(names) = 0 THEN acc ELSE Each(Tail(names), Put(acc, names[1], VInt(1)))
    IN VDict(Each(aliases, Each(main_model.field_names, <<>>)))

\* LookupCombination.accept, Lookup.accept
accept(self, main_model, project) ==
    LET node == IF self.k = "Lookup" THEN LookupCombination(<<self>>) ELSE self
        RECURSIVE Loop(_, _, _)
        Loop(i, accepted_lookup, aliases) ==
            IF i > Len(node.children)
            THEN Ok(Append(accepted_lookup,
                           One("$project",
                               IF ~Truthy(project)
                               THEN generate_lookup_project_params(main_model, aliases)
                               ELSE project)))
            ELSE The({ IF ~IsOk(stages) THEN stages
                       ELSE Loop(i + 1, accepted_lookup \o stages.v,
                                 Append(aliases, node.children[i].as_)) :
                       stages \in {lookup_to_query(node.children[i], main_model)} })
    IN Loop(1, <<>>, <<>>)

\* QueryBuilder.aggregate_lookup up to the driver call of __query: the result
\* is the pipeline the driver's aggregate is called with
aggregate_lookup(main_model, logical_query, lookup, project, limit_rows, query) ==
    IF lookup.k = "none" THEN Raise("ValueError")
    ELSE The({
        IF ~IsOk(match) THEN match
        ELSE The({
            IF ~IsOk(accepted) THEN accepted
            ELSE Validated("QueryBuilder",
                     Frame("aggregate",
                           VList(<<One("$match", match.v)>> \o accepted.v
                                 \o <<One("$sort", One(Str.id, VInt(1)))>>
                                 \o (IF Truthy(limit_rows) THEN <<One("$limit", limit_rows)>>
                                     ELSE <<>>)),
                           NoneV, NoneV, Truthy(logical_query), <<>>)) :
            accepted \in {accept(lookup, main_model, project)} }) :
        match \in {IF Truthy(logical_query) THEN check_query_args(logical_query)
                   ELSE validate_query_data(query)} })

(***************************************************************************)
(* aggregate_lookup: the arguments are drawn, the lookup expression is     *)
(* evaluated, then the verb runs up to the driver call.                    *)
(***************************************************************************)
Ticket == [collection_name |-> <<"t", "i", "c", "k", "e", "t">>, field_names |-> FieldNames,
           fields |-> Fields]
Image == [collection_name |-> <<"i", "m", "a", "g", "e">>, field_names |-> <<Str.url>>,
          fields |-> {Str.url}]
LookupSpecs ==
    { Lookup(Image, Str.id, Str.url, <<>>, FALSE),
      Lookup(Image, Str.name, Str.url, <<"p", "i", "c">>, TRUE),
      Lookup(Ticket, Str.position, Str.name, <<>>, TRUE),
      Lookup(Image, Str.foo, Str.url, <<"b", "a", "d">>, FALSE),
      Lookup(Image, Str.url, Str.name, <<"u">>, FALSE) }
AggregateCalls ==
    [shape : 0..4, lookups : LookupSpecs \X LookupSpecs \X LookupSpecs,
     query : {<<>>, << <<Str.name, V.go>> >>},
     logical_query : {NoneV, Query(<< <<Str.name, V.go>> >>)},
     project : {NoneV, One(Str.name, VInt(1))},
     limit_rows : {NoneV, VInt(0), VInt(2)}]

\* the lookup argument, as Python evaluates it
EvalLookup(c) ==
    LET A == c.lookups[1]
        B == c.lookups[2]
        C == c.lookups[3]
    IN CASE c.shape = 0 -> Ok(NoneV)                               \* no lookup
         [] c.shape = 1 -> Ok(A)                                   \* A
         [] c.shape = 2 -> lookup_and(A, B)                        \* A & B
         [] c.shape = 3 -> lookup_and(A, lookup_and(B, C).v)       \* A & (B & C)
         [] c.shape = 4 -> lookup_and(lookup_and(A, B).v, C)       \* A & B & C

InitLookup ==
    /\ ops = [p \in Procs |-> IdleOp]
    /\ client = 1
    /\ database = 0
    /\ calls = 0
    /\ cq = <<>>
    /\ cres = Pending
    /\ cfrag = Pending
    /\ lexpr = NoExpr
    /\ lnode = NoneV
    /\ lres = Pending
    /\ acall \in AggregateCalls
    /\ alookup = Pending
    /\ ares = Pending
    /\ bulk = NoBulk

\* the arguments of the call are evaluated
ComposeLookup ==
    /\ alookup = Pending
    /\ alookup' = EvalLookup(acall)
    /\ UNCHANGED <<acall, ares, cq, cres, cfrag, lvars, wvars, bulk>>

\* Ticket.querybuilder.aggregate_lookup(logical_query, lookup, project, ...)
AggregateLookup ==
    /\ IsOk(alookup)
    /\ ares = Pending
    /\ ares' = aggregate_lookup(Ticket, acall.logical_query, alookup.v, acall.project,
                                acall.limit_rows, acall.query)
    /\ UNCHANGED <<acall, alookup, cq, cres, cfrag, lvars, wvars, bulk>>

NextLookup == ComposeLookup \/ AggregateLookup

SpecLookup == InitLookup /\ [][NextLookup]_vars

(***************************************************************************)
(* Bulk operations (helpers.py, querybuilder.py, models.py).  The list of  *)
(* models of a call is told by its length n; a part of it is the slice     *)
(* models[from:to], written [from |-> from, to |-> to].                    *)
(***************************************************************************)
MaxBatches == 4
DefaultBatchSize == 10000
CreateBatchSize == 30000

\* chunk_by_length: items[i: i + step] for i in range(0, len(items), step)
chunk_by_length(items, step) ==
    LET len == items.to - items.from
        count == (len + step - 1) \div step
    IN [b \in 1..count |->
          LET i == (b - 1) * step
          IN [from |-> items.from + i,
              to |-> items.from + (IF i + step < len THEN i + step ELSE len)]]

\* _bulk_operation: the request lists handed to __query('bulk_write', ...),
\* in the order of the calls
bulk_operation(models, batch_size) ==
    IF batch_size.k = "int" /\ batch_size.n > 0
    THEN chunk_by_length(models, batch_size.n)
    ELSE <<models>>

bulk_update(c) ==
    IF ~c.fields THEN [err |-> "ValidationError", batches |-> <<>>]
    ELSE [err |-> "none",
          batches |-> bulk_operation([from |-> 0, to |-> c.n],
                                     IF c.given THEN c.batch_size ELSE NoneV)]

\* the document lists handed to insert_many
bulk_create(c) ==
    LET given == IF c.given THEN c.batch_size ELSE NoneV
        batch_size == IF given.k = "none" \/ given.n <= 0 THEN CreateBatchSize ELSE given.n
    IN [err |-> "none", batches |-> chunk_by_length([from |-> 0, to |-> c.n], batch_size)]

bulk_update_or_create(c) ==
    IF ~c.fields THEN [err |-> "ValidationError", batches |-> <<>>]
    ELSE [err |-> "none",
          batches |-> bulk_operation([from |-> 0, to |-> c.n],
                                     IF c.given THEN c.batch_size
                                     ELSE IF c.layer = "QueryBuilder" THEN VInt(DefaultBatchSize)
                                     ELSE NoneV)]

BulkVerb(c) ==
    CASE c.verb = "bulk_update" -> bulk_update(c)
      [] c.verb = "bulk_create" -> bulk_create(c)
      [] c.verb = "bulk_update_or_create" -> bulk_update_or_create(c)

\* the calls: bulk_create is a verb of the QueryBuilder only
BulkCalls ==
    { c \in [layer : Layers, verb : {"bulk_update", "bulk_create", "bulk_update_or_create"},
             n : {0, 1, 2, 3, 5, 10000, 10001, 30001}, given : BOOLEAN,
             batch_size : {NoneV, VInt(0), VInt(0 - 1), VInt(1), VInt(2), VInt(3), VInt(10000)},
             fields : BOOLEAN] :
        /\ c.verb = "bulk_create" => (c.layer = "QueryBuilder" /\ c.fields)
        /\ ~c.given => c.batch_size = NoneV
        /\ Len(BulkVerb(c).batches) <= MaxBatches }

\* what the verb returns once every batch is written
BulkReturns(b) == Ok(IF b.call.verb = "bulk_create" THEN VInt(b.inserted) ELSE NoneV)

\* the driver call of the first batch of the queue returned
BulkWritten(b) ==
    LET batch == Head(b.queue)
        b1 == [b EXCEPT !.queue = Tail(@),
                        !.issued = Append(@, [batch |-> batch, outcome |-> "ok"]),
                        !.written = Append(@, batch),
                        !.inserted = @ + (batch.to - batch.from)]
    IN IF Len(b.queue) = 1 THEN [b1 EXCEPT !.res = BulkReturns(b1)] ELSE b1

\* variant: the exception is swallowed and the loop goes on
BulkRaised_on(b, kind) ==
    LET b1 == [b EXCEPT !.queue = Tail(@),
                        !.issued = Append(@, [batch |-> Head(b.queue), outcome |-> kind])]
    IN IF Len(b.queue) = 1 THEN [b1 EXCEPT !.res = BulkReturns(b1)] ELSE b1

\* __query raised: the exception leaves the loop and the verb
BulkRaised(b, kind) ==
    [b EXCEPT !.queue = <<>>,
              !.issued = Append(@, [batch |-> Head(b.queue), outcome |-> kind]),
              !.res = Raise(kind)]

InitBulk ==
    /\ ops = [p \in Procs |-> IdleOp]
    /\ client = 1
    /\ database = 0
    /\ calls = 0
    /\ cq = <<>>
    /\ cres = Pending
    /\ cfrag = Pending
    /\ lexpr = NoExpr
    /\ lnode = NoneV
    /\ lres = Pending
    /\ acall = NoAggregate
    /\ alookup = Pending
    /\ ares = Pending
    /\ bulk = NoBulk

\* a bulk verb is called: it runs up to its first driver call
BulkCall(c) ==
    /\ bulk = NoBulk
    /\ bulk' = The({ IF plan.err # "none" THEN [NoBulk EXCEPT !.call = c, !.res = Raise(plan.err)]
                     ELSE IF plan.batches = <<>>
                     THEN [NoBulk EXCEPT !.call = c, !.res = BulkReturns(NoBulk)]
                     ELSE [NoBulk EXCEPT !.call = c, !.queue = plan.batches]
                     : plan \in {BulkVerb(c)} })
    /\ UNCHANGED <<wvars, cq, cres, cfrag, lvars, avars>>

\* __query('bulk_write' or 'insert_many', batch) returns
BulkWriteOk ==
    /\ bulk.queue # <<>>
    /\ bulk' = BulkWritten(bulk)
    /\ UNCHANGED <<wvars, cq, cres, cfrag, lvars, avars>>

\* __query raises: the driver's BulkWriteError, or ConnectionExhausted after
\* the retries
BulkWriteRaises(kind) ==
    /\ bulk.queue # <<>>
    /\ bulk' = BulkRaised(bulk, kind)
    /\ UNCHANGED <<wvars, cq, cres, cfrag, lvars, avars>>

NextBulk ==
    \/ \E c \in BulkCalls : BulkCall(c)
    \/ BulkWriteOk
    \/ \E kind \in {"BulkWriteError", "ConnectionExhausted"} : BulkWriteRaises(kind)

SpecBulk == InitBulk /\ [][NextBulk]_vars

(***************************************************************************)
(* The operator table.                                                     *)
(***************************************************************************)

C11_MalformedValuesRejected ==
    (cfrag # Pending /\ Len(Split(cq[1][1], US)) = 2) =>
        LET parts == Split(cq[1][1], US)
            v == cq[1][2]
            Malformed ==
                \/ parts[2] \in {Str.in, Str.nin} /\ v.k # "list"
                \/ parts[2] = Str.range /\ v.k \in {"list", "tuple"} /\ Len(v.l) # 2
                \/ parts[2] = Str.exists /\ v.k # "bool"
        IN (parts[1] \in Fields /\ Malformed) => cfrag.err \in {"TypeError", "ValueError"}

(***************************************************************************)
(* The negated patterns.                                                   *)
(***************************************************************************)

\* C12: for a declared field f and a string v, regex_ne, not_startswith and
\* not_endswith compile to {f: {$not: pattern}} with the pattern v, '^' + v
\* and v + '$'.
C12_NegatedRegex ==
    (cfrag # Pending /\ Len(Split(cq[1][1], US)) = 2) =>
        LET parts == Split(cq[1][1], US)
            f == parts[1]
            v == cq[1][2]
            dnot == <<"$">> \o Op.not
            \* re.compile(text), or the same pattern written as a $regex document
            IsPattern(p, text) == p = VStr(text) \/ p = One(Op.regex, VStr(text))
            Negated(text) ==
                /\ IsOk(cfrag)
                /\ cfrag.v.k = "dict" /\ Keys(cfrag.v.l) = {f}
                /\ Get(cfrag.v.l, f).k = "dict" /\ Keys(Get(cfrag.v.l, f).l) = {dnot}
                /\ IsPattern(Get(Get(cfrag.v.l, f).l, dnot), text)
        IN (f \in Fields /\ v.k = "str") =>
              /\ parts[2] = Str.regex_ne => Negated(v.s)
              /\ parts[2] = Str.not_startswith => Negated(<<"^">> \o v.s)
              /\ parts[2] = Str.not_endswith => Negated(v.s \o <<"$">>)

(***************************************************************************)
(* The increment.                                                          *)
(***************************************************************************)

\* C13: for a declared field f, the key f__inc with an integer v yields the
\* mutation fragment {$inc: {f: v}}, not a fragment keyed by f, and with a
\* value that is not an integer raises ValueError or TypeError.
C13_IncFragment ==
    (cfrag # Pending /\ Len(Split(cq[1][1], US)) = 2) =>
        LET parts == Split(cq[1][1], US)
            f == parts[1]
            v == cq[1][2]
        IN (f \in Fields /\ parts[2] = Str.inc) =>
              /\ v.k = "int" => cfrag = Ok(One(<<"$">> \o Str.inc, One(f, v)))
              /\ v.k \notin {"int", "bool"} => cfrag.err \in {"ValueError", "TypeError"}

(***************************************************************************)
(* Several operator tokens in one key.                                     *)
(***************************************************************************)

\* C14: for a declared field f and a key of two or more operator tokens that
\* each accept the value, the result is one mapping under f; it holds every
\* wire operator some token produces, once, in the order of the first token
\* that produces it, with the value of the last token that produces it.
C14_LastTokenWins ==
    (cfrag # Pending /\ Len(Split(cq[1][1], US)) > 2) =>
        LET parts == Split(cq[1][1], US)
            f == parts[1]
            v == cq[1][2]
            T == 2..Len(parts)
            Frag(t) == CallMethod(IF parts[t] = Str.in THEN Str.in_ ELSE parts[t], v)
            Makes(t, w) == HasKey(Frag(t).v.l, w)
            FirstOf(w) == CHOOSE t \in T : Makes(t, w) /\ \A u \in T : Makes(u, w) => t <= u
            LastOf(w) == CHOOSE t \in T : Makes(t, w) /\ \A u \in T : Makes(u, w) => u <= t
            Pos(t, w) == CHOOSE i \in 1..Len(Frag(t).v.l) : Frag(t).v.l[i][1] = w
        IN (f \in Fields /\ \A t \in T : parts[t] # Str.inc /\ IsOk(Frag(t))) =>
              /\ IsOk(cfrag)
              /\ cfrag.v.k = "dict" /\ Keys(cfrag.v.l) = {f}
              /\ LET m == Get(cfrag.v.l, f).l
                 IN /\ Keys(m) = UNION {Keys(Frag(t).v.l) : t \in T}
                    /\ \A i \in 1..Len(m) :
                          /\ m[i][2] = Get(Frag(LastOf(m[i][1])).v.l, m[i][1])
                          /\ \A j \in 1..Len(m) :
                                i < j =>
                                   /\ m[i][1] # m[j][1]
                                   /\ \/ FirstOf(m[i][1]) < FirstOf(m[j][1])
                                      \/ /\ FirstOf(m[i][1]) = FirstOf(m[j][1])
                                         /\ Pos(FirstOf(m[i][1]), m[i][1])
                                               < Pos(FirstOf(m[j][1]), m[j][1])
              /\ Len(cq) = 1 => cres = cfrag

C14_Witness ==
    /\ cq = << <<K(<<Str.name, Str.startswith, Str.endswith>>), V.go>> >>
    /\ cfrag = Ok(One(Str.name, One(Op.regex, VStr(V.go.s \o <<"$">>))))

(***************************************************************************)
(* Nested paths.                                                           *)
(***************************************************************************)

\* C15: for a declared field f, a key f__url compiles to the dotted key
\* 'f.url' with the value as given, not validated against the type of f
\* (the set side of an update compiles config__url__set as this key), and
\* f__url__startswith with a string v to {'f.url': {$regex: '^' + v}}.
C15_DottedNestedPath ==
    (cres # Pending /\ Len(cq) = 1 /\ Len(Split(cq[1][1], US)) > 1) =>
        LET parts == Split(cq[1][1], US)
            v == cq[1][2]
            dotted == parts[1] \o <<".">> \o Str.url
        IN (parts[1] \in Fields /\ parts[2] = Str.url) =>
              /\ Len(parts) = 2 => cres = Ok(One(dotted, v))
              /\ (Len(parts) = 3 /\ parts[3] = Str.startswith /\ v.k = "str")
                    => cres = Ok(One(dotted, One(Op.regex, VStr(<<"^">> \o v.s))))

(***************************************************************************)
(* Boolean expressions.                                                    *)
(***************************************************************************)

\* C16: Query(name=123) | Query(name__ne=124) & Query(position=1) |
\* Query(position=2) compiles to exactly
\* {$or: [{name: '123'}, {$and: [{name: {$ne: '124'}}, {position: 1}]}, {position: 2}]}.
C16_QueryOrganization ==
    (/\ lres # Pending
     /\ lexpr = [shape |-> 1,
                 leaves |-> << Query(<< <<Str.name, VInt(123)>> >>),
                               Query(<< <<K(<<Str.name, Str.ne>>), VInt(124)>> >>),
                               Query(<< <<Str.position, VInt(1)>> >>),
                               Query(<< <<Str.position, VInt(2)>> >>) >>])
       => lres = Ok(One(d_or, VList(<<
                     One(Str.name, VStr(<<"1", "2", "3">>)),
                     One(d_and, VList(<< One(Str.name, One(Op.ne, VStr(<<"1", "2", "4">>))),
                                         One(Str.position, VInt(1)) >>)),
                     One(Str.position, VInt(2)) >>)))

\* C18: find_one with an argument that is neither a Query nor a
\* LogicalCombination raises InvalidArgsParams and calls the driver never;
\* with a Query or a LogicalCombination every driver call of the operation
\* carries the compiled filter of the node.
C18_CheckQueryArgs ==
    \A p \in Procs :
        LET o == ops[p]
            logical_query == o.call.logical_query
            Sends(filter) ==
                /\ o.outcome.src # "build"
                /\ o.pc = "dispatch" => o.pending.args = <<filter>>
                /\ \A i \in 1..Len(o.log) : o.log[i].args = <<filter>>
        IN Truthy(logical_query) =>
              /\ logical_query.k \notin {"Query", "LogicalCombination"} =>
                    /\ o.pc = "done"
                    /\ o.outcome.kind = "InvalidArgsParams"
                    /\ o.attempts = 0 /\ o.log = <<>> /\ o.pending = NoPending
              /\ logical_query.k = "Query" => Sends(One(Str.name, V.go))
              /\ logical_query.k = "LogicalCombination" =>
                    Sends(One(d_or, VList(<<One(Str.name, V.go), One(Str.position, VInt(42))>>)))

C18_Witness ==
    \E p \in Procs :
        /\ ops[p].call.logical_query = RawMapping
        /\ ops[p].outcome.kind = "InvalidArgsParams"
        /\ ops[p].attempts = 0

\* C17: chains of one operator flatten whatever the grouping: (A | B) | C and
\* A | (B | C) are the one $or node over A, B, C (likewise for & and $and,
\* and for (A | B) | (C | D)); equal children appear once, in the order of
\* their first occurrence; an operand of the other operator is one child.
C17_AssociativeFlattening ==
    lnode # NoneV =>
        LET A == lexpr.leaves[1]
            B == lexpr.leaves[2]
            C == lexpr.leaves[3]
            D == lexpr.leaves[4]
            Uniq(seq) ==
                LET keep == {i \in 1..Len(seq) : \A j \in 1..(i - 1) : seq[j] # seq[i]}
                    RECURSIVE Pick(_)
                    Pick(i) == IF i > Len(seq) THEN <<>>
                               ELSE (IF i \in keep THEN <<seq[i]>> ELSE <<>>) \o Pick(i + 1)
                IN Pick(1)
            Node(op, seq) == [k |-> "LogicalCombination", n |-> 0, s |-> op, l |-> seq]
            Compiled(op, seq) ==
                (lres # Pending /\ \A i \in 1..Len(seq) : IsOk(validate_query_data(seq[i].l)))
                   => lres = Ok(One(op, VList([i \in 1..Len(seq) |->
                                                  validate_query_data(seq[i].l).v])))
        IN /\ lexpr.shape \in {2, 3} =>
                 lnode = Node(d_or, Uniq(<<A, B, C>>)) /\ Compiled(d_or, Uniq(<<A, B, C>>))
           /\ lexpr.shape \in {4, 5} =>
                 lnode = Node(d_and, Uniq(<<A, B, C>>)) /\ Compiled(d_and, Uniq(<<A, B, C>>))
           /\ lexpr.shape = 10 =>
                 lnode = Node(d_or, Uniq(<<A, B, C, D>>)) /\ Compiled(d_or, Uniq(<<A, B, C, D>>))
           /\ lexpr.shape = 6 => lnode = Node(d_and, <<Node(d_or, Uniq(<<A, B>>)), C>>)
           /\ lexpr.shape = 7 => lnode = Node(d_or, <<A, Node(d_and, Uniq(<<B, C>>))>>)

C17_Witness ==
    /\ lexpr.shape = 3
    /\ lexpr.leaves[1] = Query(<< <<Str.name, VInt(123)>> >>)
    /\ lexpr.leaves[2] = Query(<< <<Str.position, VInt(1)>> >>)
    /\ lexpr.leaves[3] = Query(<< <<Str.position, VInt(2)>> >>)
    /\ lres = Ok(One(d_or, VList(<< One(Str.name, VStr(<<"1", "2", "3">>)),
                                   One(Str.position, VInt(1)), One(Str.position, VInt(2)) >>)))

(***************************************************************************)
(* Lookups.                                                                *)
(***************************************************************************)

\* C19: a LookupCombination holds every Lookup once, in the order of its
\* first occurrence among the operands (A & A, A & B, A & (B & C) with any
\* of them equal), and the pipeline has one $lookup stage for each.
C19_NoDuplicateLookup ==
    (IsOk(alookup) /\ alookup.v.k = "LookupCombination") =>
        LET operands == IF acall.shape = 2 THEN SubSeq(acall.lookups, 1, 2) ELSE acall.lookups
            first == {i \in 1..Len(operands) : \A j \in 1..(i - 1) : operands[j] # operands[i]}
            RECURSIVE Pick(_)
            Pick(i) == IF i > Len(operands) THEN <<>>
                       ELSE (IF i \in first THEN <<operands[i]>> ELSE <<>>) \o Pick(i + 1)
            IsLookup(stage) == stage.l[1][1] = "$lookup"
        IN /\ alookup.v.children = Pick(1)
           /\ IsOk(ares) =>
                 Cardinality({i \in 1..Len(ares.v.l) : IsLookup(ares.v.l[i])})
                    = Cardinality(first)

C21_LocalFieldChecked ==
    (ares # Pending /\ alookup.v.k # "none") =>
        LET children == IF alookup.v.k = "Lookup" THEN <<alookup.v>> ELSE alookup.v.children
            Addressable(lookup) ==
                \/ lookup.local_field = Str.id
                \/ lookup.local_field \in Fields
                \/ lookup.local_field \in lookup.from_collection.fields
        IN (ares = Raise("AttributeError"))
              <=> (\E i \in 1..Len(children) : ~Addressable(children[i]))

C21_Witness ==
    /\ acall.shape = 2
    /\ acall.lookups[1] = Lookup(Image, Str.url, Str.name, <<"u">>, FALSE)
    /\ acall.lookups[2] = Lookup(Image, Str.foo, Str.url, <<"b", "a", "d">>, FALSE)
    /\ ares = Raise("AttributeError")

(***************************************************************************)
(* Bulk operations.                                                        *)
(***************************************************************************)

\* C22: a bulk verb that has returned, called with n models and a chunk size
\* s > 0 (the one given, or the default of the QueryBuilder verb when the
\* caller gives none), has issued exactly ceil(n/s) batch writes: each of at
\* most s models, each but the last of exactly s, and one after the other
\* they are the input list.
C22_ChunkedWrites ==
    (bulk.call.verb # "" /\ IsOk(bulk.res) /\ (bulk.call.given \/ bulk.call.layer = "QueryBuilder")) =>
        LET c == bulk.call
            s == IF c.given THEN c.batch_size.n
                 ELSE IF c.verb = "bulk_create" THEN CreateBatchSize ELSE DefaultBatchSize
            count == Len(bulk.issued)
            size(i) == bulk.issued[i].batch.to - bulk.issued[i].batch.from
        IN s > 0 =>
            /\ count = (c.n + s - 1) \div s
            /\ \A i \in 1..count :
                  /\ bulk.issued[i].outcome = "ok"
                  /\ size(i) <= s
                  /\ i < count => size(i) = s
                  /\ bulk.issued[i].batch.from = (IF i = 1 THEN 0 ELSE bulk.issued[i - 1].batch.to)
                  /\ i = count => bulk.issued[i].batch.to = c.n

\* the same for the calls that give a chunk size s > 0, and for the verbs
\* that put a default in the place of a missing one (bulk_create, and
\* bulk_update_or_create of the QueryBuilder)
C22_ChunkedWhenSized ==
    (bulk.call.verb # "" /\ IsOk(bulk.res)) =>
        LET c == bulk.call
            s == IF c.given THEN c.batch_size.n
                 ELSE IF c.verb = "bulk_create" THEN CreateBatchSize
                 ELSE IF c.verb = "bulk_update_or_create" /\ c.layer = "QueryBuilder"
                 THEN DefaultBatchSize
                 ELSE 0
            count == Len(bulk.issued)
            size(i) == bulk.issued[i].batch.to - bulk.issued[i].batch.from
        IN s > 0 =>
            /\ count = (c.n + s - 1) \div s
            /\ \A i \in 1..count :
                  /\ size(i) <= s
                  /\ i < count => size(i) = s
                  /\ bulk.issued[i].batch.from = (IF i = 1 THEN 0 ELSE bulk.issued[i - 1].batch.to)
                  /\ i = count => bulk.issued[i].batch.to = c.n

\* C23: when the write of a batch fails with the driver's BulkWriteError, the
\* verb raises that error, it is the last write issued, no batch is left to
\* write, and the collection keeps every batch written before it.
C23_FailedChunkAborts ==
    \A i \in 1..Len(bulk.issued) :
        bulk.issued[i].outcome = "BulkWriteError" =>
            /\ i = Len(bulk.issued)
            /\ bulk.queue = <<>>
            /\ bulk.res = Raise("BulkWriteError")
            /\ bulk.written = [j \in 1..(i - 1) |-> bulk.issued[j].batch]

C23_Witness ==
    /\ Len(bulk.issued) = 3
    /\ bulk.issued[3].outcome = "BulkWriteError"
    /\ Len(bulk.written) = 2
    /\ bulk.call.n = 5
    /\ bulk.res = Raise("BulkWriteError")

(***************************************************************************)
(* The connection.                                                         *)
(***************************************************************************)

\* C27: a reconnect puts a new client in the connection, and the driver call
\* of every attempt after a reconnect goes through a database obtained from
\* the client the connection holds at that time.
C27_DispatchThroughNewClient ==
    [][\A p \in Procs :
          /\ ops'[p].reconnects > ops[p].reconnects => client' # client
          /\ (Len(ops'[p].via) > Len(ops[p].via) /\ Len(ops[p].via) > 0) =>
                ops'[p].via[Len(ops'[p].via)]]_vars

\* the part of it about the client alone
C27_ClientReplaced ==
    [][\A p \in Procs : ops'[p].reconnects > ops[p].reconnects => client' # client]_vars

(***************************************************************************)
(* Two callers at once.                                                    *)
(***************************************************************************)

\* C26: whatever the other caller does, an operation makes at most 5 driver
\* calls, and it raises MongoConnectionError only after 5 driver calls of its
\* own that failed with a transient error.
C26_RetryStatePrivate ==
    \A p \in Procs :
        /\ ops[p].attempts <= MaxAttempts
        /\ ops[p].outcome.kind = "MongoConnectionError" =>
              (ops[p].attempts = MaxAttempts /\ ops[p].transients = MaxAttempts)

C26_Witness ==
    /\ ops[1].outcome.kind = "MongoConnectionError"
    /\ ops[2].pc = "caught"
    /\ ops[2].attempts = 2
    /\ client > MaxAttempts + 1

(***************************************************************************)
(* The other verbs: the raw passthrough, save, find_and_replace.           *)
(***************************************************************************)

\* C24: whatever the verb, a transient error of the driver never leaves the
\* operation as the driver's error, and an operation whose first driver call
\* failed with a transient error has reconnected and made a second one
\* before it ends.
C24_EveryVerbThroughWrapper ==
    \A p \in Procs :
        LET o == ops[p]
        IN /\ o.outcome.src = "driver" => o.outcome.kind \notin TransientKinds
           /\ (o.pc = "done" /\ o.err.kind \in TransientKinds) =>
                 (o.reconnects >= 1 /\ o.attempts >= 2)

\* C25: the driver call of every verb is given the session the caller passed,
\* and none when the caller passed none.
C25_SessionForwarded ==
    \A p \in Procs :
        LET o == ops[p]
            received == IF HasKey(o.pending.kwargs, "session")
                        THEN Get(o.pending.kwargs, "session") ELSE NoneV
        IN o.pending # NoPending => received = o.call.session

\* C28: find_and_replace with filter keys that are declared fields and a
\* replacement builds the driver call find_one_and_replace(filter,
\* replacement) with the compiled filter, without any __set key, and makes it
\* once when the driver returns at once.
C28_FindAndReplace ==
    \A p \in Procs :
        LET o == ops[p]
        IN (/\ o.call.verb = "find_and_replace"
            /\ \A i \in 1..Len(o.call.query) : o.call.query[i][1] \in Fields) =>
               /\ o.pending.method_name = "find_one_and_replace"
               /\ o.pending.args = <<validate_query_data(o.call.query).v, o.call.arg>>
               /\ (o.outcome = Returned /\ o.transients = 0) => Len(o.log) = 1

\* the same for find_and_replace of the model
C28_ModelFindAndReplace ==
    \A p \in Procs :
        LET o == ops[p]
        IN (/\ o.call.verb = "find_and_replace"
            /\ o.call.layer = "MongoModel"
            /\ \A i \in 1..Len(o.call.query) : o.call.query[i][1] \in Fields) =>
               /\ o.pending.method_name = "find_one_and_replace"
               /\ o.pending.args = <<validate_query_data(o.call.query).v, o.call.arg>>
               /\ (o.outcome = Returned /\ o.transients = 0) => Len(o.log) = 1

\* C29: an operation that hands a session to __query and meets a transient
\* error is retried with that session: every driver call it makes carries
\* the session, and it ends with the value, with the driver's own error or,
\* after 5 failed attempts, with MongoConnectionError, never with another
\* error raised by the retry.
C29_SessionKeepsRetry ==
    \A p \in Procs :
        LET o == ops[p]
        IN (Truthy(o.frame.session) /\ o.transients >= 1) =>
              /\ \A i \in 1..Len(o.log) :
                    /\ HasKey(o.log[i].kwargs, "session")
                    /\ Get(o.log[i].kwargs, "session") = o.frame.session
              /\ o.pc = "done" =>
                    \/ o.outcome.kind = "returned"
                    \/ o.outcome.src = "driver"
                    \/ o.outcome.kind = "MongoConnectionError" /\ o.attempts = MaxAttempts

(***************************************************************************)
(* Several keys for one field.                                             *)
(***************************************************************************)

\* C30: the compiled filter has one entry for each field the keys name, and
\* the entry of a field is the fragment of the last key that names it: what
\* an earlier key of the same field asked for is not in the filter.
C30_OneEntryPerField ==
    (cres # Pending /\ IsOk(cres)) =>
        LET d == cres.v.l
            F(i) == Split(cq[i][1], US)[1]
            alone(i) == validate_query_data(<<cq[i]>>).v.l[1][2]
        IN /\ \A i, j \in 1..Len(d) : d[i][1] = d[j][1] => i = j
           /\ Keys(d) = {F(i) : i \in 1..Len(cq)}
           /\ \A i \in 1..Len(cq) :
                 (\A j \in (i + 1)..Len(cq) : F(j) # F(i)) =>
                     /\ Get(d, F(i)).k = alone(i).k
                     /\ Get(d, F(i)) = alone(i)

C30_Witness ==
    /\ cq = << <<K(<<Str.position, Str.gte>>), VInt(7)>>, <<K(<<Str.position, Str.lte>>), VInt(7)>> >>
    /\ cres = Ok(VDict(<< <<Str.position, One(Op.lte, VInt(7))>> >>))

====
